---- MODULE Spec2Model ----
(***************************************************************************)
(* A model of the ETL_UV pipeline (src/main.py, src/test.py): the date     *)
(* parser, the reference resolver, the dimension extractor and the         *)
(* statement order and error propagation of main().                        *)
(*                                                                         *)
(* Cell values are tagged records, so that cells of different Python types *)
(* compare unequal:                                                        *)
(*   [s |-> <<"A","i","r">>]   str (a tuple of one-character strings)      *)
(*   [i |-> 7]                 int                                         *)
(*   [f |-> 2505]              float, in tenths (250.5)                    *)
(*   [y |-> 2006, m |-> 6, d |-> 2]  datetime                              *)
(*   [nan |-> TRUE]  NaN,  [none |-> TRUE]  None,  [nat |-> TRUE]  NaT     *)
(***************************************************************************)
EXTENDS Integers, Sequences, FiniteSets, TLC

VARIABLES
    pc,               \* where the running call is: "main", "except", "returned", ...
    stmt,             \* the statement of main() that runs next (index of main_body)
    value,            \* argument of parse_date / resolve_id_reference
    column,           \* argument of resolve_id_reference
    dataset,          \* argument of resolve_id_reference; main's `dataset`
    result,           \* what the call returned
    stdout,           \* the lines printed so far
    source,           \* the input as it was handed over (never written again)
    dataframes,       \* main's `dataframes`
    df,               \* main's `df`; create_dimension_tables' returned fact table
    countries, vendors, transport_modes, products,
    pg_conn,          \* "none", "open", "closed"
    db,               \* the calls the database has received, in order
    error,            \* the exception that left the call, or NoError
    parser_accepts        \* whether pandas' permissive parser reads a date from a text
                      \* the three formats reject (the library's verdict)

\* what only main() and create_dimension_tables write
tables == <<countries, vendors, transport_modes, products>>
pipeline == <<dataframes, pg_conn, db, stmt>>

vars == <<pc, stmt, value, column, dataset, result, stdout, source, dataframes, df,
          countries, vendors, transport_modes, products, pg_conn, db, error, parser_accepts>>

-----------------------------------------------------------------------------
(* Bounds of the model.                                                    *)

MaxLen == 3          \* longest text handed to resolve_id_reference
MaxRows == 2         \* most rows of a dataset handed to resolve_id_reference

-----------------------------------------------------------------------------
(* Python values.                                                          *)

Str(chars) == [s |-> chars]
IntV(n) == [i |-> n]
FloatV(tenths) == [f |-> tenths]
NaN == [nan |-> TRUE]
None == [none |-> TRUE]
NaT == [nat |-> TRUE]

IsStr(v) == "s" \in DOMAIN v
IsNaN(v) == "nan" \in DOMAIN v
IsDatetime(v) == "y" \in DOMAIN v \/ "ts" \in DOMAIN v

\* pd.isna: NaN, None and NaT are the missing values
isna(v) == "nan" \in DOMAIN v \/ "none" \in DOMAIN v \/ "nat" \in DOMAIN v

Digit == {"0", "1", "2", "3", "4", "5", "6", "7", "8", "9"}

DigitVal(c) ==
    CASE c = "0" -> 0 [] c = "1" -> 1 [] c = "2" -> 2 [] c = "3" -> 3
      [] c = "4" -> 4 [] c = "5" -> 5 [] c = "6" -> 6 [] c = "7" -> 7
      [] c = "8" -> 8 [] c = "9" -> 9

IsDigits(chars) == Len(chars) > 0 /\ \A k \in 1..Len(chars) : chars[k] \in Digit

\* int(text) on a run of decimal digits
RECURSIVE int(_)
int(chars) ==
    IF Len(chars) = 0 THEN 0
    ELSE 10 * int(SubSeq(chars, 1, Len(chars) - 1)) + DigitVal(chars[Len(chars)])

-----------------------------------------------------------------------------
(* ID_PATTERN = r":\d+" and the two ways the resolver applies it.          *)

\* the pattern matches at position p: a colon, then at least one digit
PatternAt(chars, p) ==
    /\ p + 1 <= Len(chars)
    /\ chars[p] = ":"
    /\ chars[p + 1] \in Digit

\* re.match(ID_PATTERN, text): anchored at the start of the text
re_match(chars) == PatternAt(chars, 1)

\* re.search(ID_PATTERN, text): anywhere in the text
re_search(chars) == \E p \in 1..Len(chars) : PatternAt(chars, p)

\* re.search(ID_PATTERN, text).group(): the leftmost match, digits taken greedily
re_search_group(chars) ==
    LET p == CHOOSE q \in 1..Len(chars) :
                 PatternAt(chars, q) /\ \A r \in 1..(q - 1) : ~PatternAt(chars, r)
        e == CHOOSE q \in (p + 1)..Len(chars) :
                 /\ \A r \in (p + 1)..q : chars[r] \in Digit
                 /\ (q = Len(chars) \/ chars[q + 1] \notin Digit)
    IN  SubSeq(chars, p, e)

\* str.replace(":", "")
RECURSIVE replace_colon(_)
replace_colon(chars) ==
    IF Len(chars) = 0 THEN <<>>
    ELSE IF Head(chars) = ":" THEN replace_colon(Tail(chars))
    ELSE <<Head(chars)>> \o replace_colon(Tail(chars))

\* dataset.loc[dataset["id"] == n, column]: the column's cells of the rows with that id
loc_id(rows, n, col) ==
    LET RECURSIVE pick(_)
        pick(k) == IF k > Len(rows) THEN <<>>
                   ELSE IF rows[k]["id"] = IntV(n) THEN <<rows[k][col]>> \o pick(k + 1)
                   ELSE pick(k + 1)
    IN  pick(1)

NoError == "none"

\* The miss that answers None instead of the input value.
resolve_try_miss_none(val, id_str, rows, col) ==
    IF ~IsDigits(id_str) THEN [raised |-> "ValueError"]
    ELSE LET filtered == loc_id(rows, int(id_str), col)
         IN  [ret |-> IF Len(filtered) > 0 THEN filtered[1] ELSE None]

\* The try block of resolve_id_reference (lines 86-87): int() raises ValueError
\* on a text that is no run of digits; iloc[0] is guarded by `not filtered.empty`.
resolve_try(val, id_str, rows, col) ==
    IF ~IsDigits(id_str) THEN [raised |-> "ValueError"]
    ELSE LET filtered == loc_id(rows, int(id_str), col)
         IN  [ret |-> IF Len(filtered) > 0 THEN filtered[1] ELSE val]

Diagnostic(id_str, col) == [msg |-> "ID non trouve ou invalide", id |-> id_str, col |-> col]

\* resolve_id_reference(value, dataset, column): what it returns (ret), what it
\* prints (out) and the exception that leaves it (exc).
resolve_id_reference(val, rows, col) ==
    IF ~IsStr(val) \/ ~re_match(val.s)
    THEN [ret |-> val, out |-> <<>>, exc |-> NoError]
    ELSE LET id_str == replace_colon(re_search_group(val.s))
             r == resolve_try(val, id_str, rows, col)
         IN  IF "ret" \in DOMAIN r THEN [ret |-> r.ret, out |-> <<>>, exc |-> NoError]
             ELSE IF r.raised \in {"ValueError", "IndexError"}
             THEN [ret |-> val, out |-> <<Diagnostic(id_str, col)>>, exc |-> NoError]
             ELSE [ret |-> None, out |-> <<>>, exc |-> r.raised]

-----------------------------------------------------------------------------
(* The values no specification below uses stay at these.                   *)

Idle == <<>>

-----------------------------------------------------------------------------
(* SpecResolve: one call of resolve_id_reference on every text of at most  *)
(* MaxLen characters over ResolveChars (and three values that are no       *)
(* text), every dataset of at most MaxRows rows, both resolved columns.    *)

ResolveChars == {":", "0", "1", "x"}

RECURSIVE TextsOfLen(_, _)
TextsOfLen(chars, n) ==
    IF n = 0 THEN {<<>>}
    ELSE {<<c>> \o t : c \in chars, t \in TextsOfLen(chars, n - 1)}

TextsUpTo(chars, n) == UNION {TextsOfLen(chars, k) : k \in 0..n}

ResolveValues ==
    {Str(t) : t \in TextsUpTo(ResolveChars, MaxLen)} \cup {NaN, FloatV(2505), IntV(1)}

ResolveColumns == {"freight_cost_usd", "weight_kilograms"}

ResolveRows ==
    {("id" :> i) @@ ("weight_kilograms" :> w) @@ ("freight_cost_usd" :> c) :
        i \in {IntV(1), IntV(10)},
        w \in {FloatV(2505), Str(<<":", "1">>)},
        c \in {FloatV(1000), NaN}}

RECURSIVE SeqsOfLen(_, _)
SeqsOfLen(S, n) ==
    IF n = 0 THEN {<<>>}
    ELSE {<<x>> \o t : x \in S, t \in SeqsOfLen(S, n - 1)}

SeqsUpTo(S, n) == UNION {SeqsOfLen(S, k) : k \in 0..n}

InitResolve ==
    /\ pc = "resolve"
    /\ value \in ResolveValues
    /\ column \in ResolveColumns
    /\ dataset \in SeqsUpTo(ResolveRows, MaxRows)
    /\ result = None
    /\ stdout = <<>>
    /\ error = NoError
    /\ source = Idle /\ dataframes = Idle /\ df = Idle
    /\ countries = Idle /\ vendors = Idle /\ transport_modes = Idle /\ products = Idle
    /\ pg_conn = "none" /\ db = <<>> /\ stmt = 0
    /\ parser_accepts = FALSE

ResolveCall ==
    /\ pc = "resolve"
    /\ LET r == resolve_id_reference(value, dataset, column)
       IN  /\ result' = r.ret
           /\ stdout' = stdout \o r.out
           /\ error' = r.exc
    /\ pc' = "resolved"
    /\ UNCHANGED <<value, column, dataset, source, df, tables, pipeline, parser_accepts>>

NextResolve == ResolveCall

SpecResolve == InitResolve /\ [][NextResolve]_vars

\* the integer after the colon of the leftmost reference in a text
ReferencedId(chars) == int(replace_colon(re_search_group(chars)))

\* the cells of the requested column in the rows the reference names
ReferencedCells == 
    {dataset[k][column] : k \in {j \in 1..Len(dataset) :
                                   dataset[j]["id"] = IntV(ReferencedId(value.s))}}

ContainsReference == IsStr(value) /\ re_search(value.s)

\* C1 (as claimed): a text that contains the reference pattern anywhere, given
\* a dataset with a row of the referenced id, resolves to that row's value for
\* the requested column.
C1_ResolvesAnywhere ==
    (pc = "resolved" /\ ContainsReference /\ ReferencedCells # {})
        => (error = NoError /\ result \in ReferencedCells)

\* C2: a value that is no text, or a text without the reference pattern, or a
\* reference to an id no row has, is returned as it is and nothing is raised.
C2_MissReturnsInput ==
    (pc = "resolved" /\ (~ContainsReference \/ ReferencedCells = {}))
        => (result = value /\ error = NoError)

\* a reference at the start of the text to an id no row of a non-empty dataset has
C2_Witness ==
    /\ pc = "resolved"
    /\ IsStr(value) /\ re_match(value.s)
    /\ dataset # <<>> /\ ReferencedCells = {}
    /\ result = value

\* C9 (as claimed): a reference whose id no row has leaves a diagnostic on
\* stdout before the text is returned.
C9_MissIsLogged ==
    (pc = "resolved" /\ ContainsReference /\ ReferencedCells = {})
        => stdout # <<>>

-----------------------------------------------------------------------------
(* Text helpers.                                                           *)

Whitespace == {" ", "\t", "\n"}

\* str.strip()
RECURSIVE lstrip(_)
lstrip(chars) ==
    IF Len(chars) > 0 /\ Head(chars) \in Whitespace THEN lstrip(Tail(chars)) ELSE chars

RECURSIVE rstrip(_)
rstrip(chars) ==
    IF Len(chars) > 0 /\ chars[Len(chars)] \in Whitespace
    THEN rstrip(SubSeq(chars, 1, Len(chars) - 1)) ELSE chars

strip(chars) == rstrip(lstrip(chars))

UpperCase == <<"A", "B", "C", "D", "E", "F", "G", "H", "I", "J", "K", "L", "M", "N", "O", "P", "Q", "R", "S", "T", "U", "V", "W", "X", "Y", "Z">>
LowerCase == <<"a", "b", "c", "d", "e", "f", "g", "h", "i", "j", "k", "l", "m", "n", "o", "p", "q", "r", "s", "t", "u", "v", "w", "x", "y", "z">>

\* str.lower(), one character
lower_char(c) ==
    IF \E k \in 1..Len(UpperCase) : UpperCase[k] = c
    THEN LowerCase[CHOOSE k \in 1..Len(UpperCase) : UpperCase[k] = c]
    ELSE c

lower(chars) == [k \in 1..Len(chars) |-> lower_char(chars[k])]

\* str.split(sep) for a one-character separator
RECURSIVE split(_, _)
split(chars, sep) ==
    IF \A k \in 1..Len(chars) : chars[k] # sep THEN <<chars>>
    ELSE LET p == CHOOSE q \in 1..Len(chars) :
                      chars[q] = sep /\ \A r \in 1..(q - 1) : chars[r] # sep
         IN  <<SubSeq(chars, 1, p - 1)>> \o split(SubSeq(chars, p + 1, Len(chars)), sep)

\* str(n) for n >= 0
RECURSIVE digits_of(_)
digits_of(n) ==
    LET d == <<"0", "1", "2", "3", "4", "5", "6", "7", "8", "9">>[(n % 10) + 1]
    IN  IF n < 10 THEN <<d>> ELSE digits_of(n \div 10) \o <<d>>

-----------------------------------------------------------------------------
(* datetime.strptime for the three formats of DATE_FORMATS.                *)

DATE_FORMATS == <<"%m/%d/%y", "%d-%b-%y", "%Y-%m-%d">>

ValueError == [raised |-> "ValueError"]
Raised(r) == "raised" \in DOMAIN r

Datetime(y, m, d) == [y |-> y, m |-> m, d |-> d]

IsLeap(y) == y % 4 = 0 /\ (y % 100 # 0 \/ y % 400 = 0)

DaysIn(y, m) ==
    IF m = 2 THEN (IF IsLeap(y) THEN 29 ELSE 28)
    ELSE IF m \in {4, 6, 9, 11} THEN 30 ELSE 31

\* %m: 1[0-2]|0[1-9]|[1-9]
directive_m(seg) ==
    /\ IsDigits(seg) /\ Len(seg) \in {1, 2}
    /\ int(seg) \in 1..12

\* %d: 3[01]|[12]\d|0[1-9]|[1-9]| [1-9]
directive_d(seg) ==
    \/ IsDigits(seg) /\ Len(seg) \in {1, 2} /\ int(seg) \in 1..31
    \/ Len(seg) = 2 /\ seg[1] = " " /\ seg[2] \in Digit \ {"0"}

day_of(seg) == IF seg[1] = " " THEN DigitVal(seg[2]) ELSE int(seg)

\* %y: \d\d, years 69-99 in the 1900s and 00-68 in the 2000s
directive_y(seg) == IsDigits(seg) /\ Len(seg) = 2

year_of_y(seg) == IF int(seg) >= 69 THEN 1900 + int(seg) ELSE 2000 + int(seg)

\* %Y: \d\d\d\d
directive_Y(seg) == IsDigits(seg) /\ Len(seg) = 4

\* %b: the abbreviated month names, case ignored
MonthAbbr == <<<<"j", "a", "n">>, <<"f", "e", "b">>, <<"m", "a", "r">>, <<"a", "p", "r">>, <<"m", "a", "y">>, <<"j", "u", "n">>,
               <<"j", "u", "l">>, <<"a", "u", "g">>, <<"s", "e", "p">>, <<"o", "c", "t">>, <<"n", "o", "v">>, <<"d", "e", "c">>>>

directive_b(seg) == \E k \in 1..12 : MonthAbbr[k] = lower(seg)

month_of_b(seg) == CHOOSE k \in 1..12 : MonthAbbr[k] = lower(seg)

\* datetime(y, m, d): ValueError when the day is not one of the month or the
\* year is below 1
make_datetime(y, m, d) ==
    IF y >= 1 /\ d <= DaysIn(y, m) THEN Datetime(y, m, d) ELSE ValueError

\* datetime.strptime(text, fmt): the whole text has to match
strptime(chars, fmt) ==
    CASE fmt = "%m/%d/%y" ->
           LET p == split(chars, "/")
           IN  IF Len(p) = 3 /\ directive_m(p[1]) /\ directive_d(p[2]) /\ directive_y(p[3])
               THEN make_datetime(year_of_y(p[3]), int(p[1]), day_of(p[2]))
               ELSE ValueError
      [] fmt = "%d-%b-%y" ->
           LET p == split(chars, "-")
           IN  IF Len(p) = 3 /\ directive_d(p[1]) /\ directive_b(p[2]) /\ directive_y(p[3])
               THEN make_datetime(year_of_y(p[3]), month_of_b(p[2]), day_of(p[1]))
               ELSE ValueError
      [] fmt = "%Y-%m-%d" ->
           LET p == split(chars, "-")
           IN  IF Len(p) = 3 /\ directive_Y(p[1]) /\ directive_m(p[2]) /\ directive_d(p[3])
               THEN make_datetime(int(p[1]), int(p[2]), day_of(p[3]))
               ELSE ValueError

-----------------------------------------------------------------------------
(* parse_date and convert_date_columns.                                    *)

PrePQProcess == <<"P", "r", "e", "-", "P", "Q", " ", "P", "r", "o", "c", "e", "s", "s">>
DateNotCaptured == <<"D", "a", "t", "e", " ", "N", "o", "t", " ", "C", "a", "p", "t", "u", "r", "e", "d">>

\* The texts of this model in which pandas finds no date: pd.to_datetime with
\* errors='coerce' answers NaT for each.
NoDateTexts == {<<>>, PrePQProcess, DateNotCaptured, <<"n", "a", "n">>, <<"N", "o", "n", "e">>, <<"N", "a", "T">>, <<"N", "/", "A">>, <<"x">>}

\* the Timestamp pandas reads from a text its permissive parser accepts
Timestamp(chars) == [ts |-> chars]

\* pd.to_datetime(text, errors='raise'): the rejected text raises.
to_datetime_raise(chars, accepts) ==
    IF chars \notin NoDateTexts /\ accepts THEN Timestamp(chars) ELSE ValueError

\* pd.to_datetime(text, errors='coerce'): a Timestamp or NaT, never an exception.
\* `accepts` is the library's verdict on a text that is none of NoDateTexts.
to_datetime_coerce(chars, accepts) ==
    IF chars \notin NoDateTexts /\ accepts THEN Timestamp(chars) ELSE NaT

\* str(value)
str(v) ==
    CASE IsStr(v) -> v.s
      [] "i" \in DOMAIN v -> digits_of(v.i)
      [] "nan" \in DOMAIN v -> <<"n", "a", "n">>
      [] "none" \in DOMAIN v -> <<"N", "o", "n", "e">>
      [] "nat" \in DOMAIN v -> <<"N", "a", "T">>

\* the first format of DATE_FORMATS, from position k on, that strptime accepts
RECURSIVE try_formats(_, _)
try_formats(chars, k) ==
    IF k > Len(DATE_FORMATS) THEN ValueError
    ELSE LET r == strptime(chars, DATE_FORMATS[k])
         IN  IF Raised(r) THEN try_formats(chars, k + 1) ELSE r

\* parse_date(date_str): what it returns (ret) and the exception leaving it (exc)
parse_date(v, accepts) ==
    IF isna(v) \/ v \in {Str(PrePQProcess), Str(DateNotCaptured), Str(<<>>)}
    THEN [ret |-> None, exc |-> NoError]
    ELSE LET date_str == strip(str(v))
             r == try_formats(date_str, 1)
         IN  IF ~Raised(r) THEN [ret |-> r, exc |-> NoError]
             ELSE LET t == to_datetime_coerce(date_str, accepts)
                  IN  IF Raised(t) THEN [ret |-> None, exc |-> t.raised]
                      ELSE [ret |-> t, exc |-> NoError]

\* df[col].astype(str).str.strip().apply(parse_date), one cell
convert_date_cell(v, accepts) == parse_date(Str(strip(str(v))), accepts)

-----------------------------------------------------------------------------
(* Column names.  A frame names its columns by strings; where the program  *)
(* reads a name character by character, Spell gives the characters and     *)
(* Name puts characters back together.                                     *)

\* The characters each column name of this model is written with.
Spell(name) ==
    CASE name = "ID" -> <<"I", "D">>
      [] name = "Project Code" -> <<"P", "r", "o", "j", "e", "c", "t", " ", "C", "o", "d", "e">>
      [] name = "Country" -> <<"C", "o", "u", "n", "t", "r", "y">>
      [] name = "Shipment Mode" -> <<"S", "h", "i", "p", "m", "e", "n", "t", " ", "M", "o", "d", "e">>
      [] name = "PQ First Sent to Client Date" -> <<"P", "Q", " ", "F", "i", "r", "s", "t", " ", "S", "e", "n", "t", " ", "t", "o", " ", "C", "l", "i", "e", "n", "t", " ", "D", "a", "t", "e">>
      [] name = "Scheduled Delivery Date" -> <<"S", "c", "h", "e", "d", "u", "l", "e", "d", " ", "D", "e", "l", "i", "v", "e", "r", "y", " ", "D", "a", "t", "e">>
      [] name = "Delivered to Client Date" -> <<"D", "e", "l", "i", "v", "e", "r", "e", "d", " ", "t", "o", " ", "C", "l", "i", "e", "n", "t", " ", "D", "a", "t", "e">>
      [] name = "Delivery Recorded Date" -> <<"D", "e", "l", "i", "v", "e", "r", "y", " ", "R", "e", "c", "o", "r", "d", "e", "d", " ", "D", "a", "t", "e">>
      [] name = "Product Group" -> <<"P", "r", "o", "d", "u", "c", "t", " ", "G", "r", "o", "u", "p">>
      [] name = "Sub Classification" -> <<"S", "u", "b", " ", "C", "l", "a", "s", "s", "i", "f", "i", "c", "a", "t", "i", "o", "n">>
      [] name = "Vendor" -> <<"V", "e", "n", "d", "o", "r">>
      [] name = "Item Description" -> <<"I", "t", "e", "m", " ", "D", "e", "s", "c", "r", "i", "p", "t", "i", "o", "n">>
      [] name = "Molecule/Test Type" -> <<"M", "o", "l", "e", "c", "u", "l", "e", "/", "T", "e", "s", "t", " ", "T", "y", "p", "e">>
      [] name = "Brand" -> <<"B", "r", "a", "n", "d">>
      [] name = "Dosage" -> <<"D", "o", "s", "a", "g", "e">>
      [] name = "Dosage Form" -> <<"D", "o", "s", "a", "g", "e", " ", "F", "o", "r", "m">>
      [] name = "Line Item Quantity" -> <<"L", "i", "n", "e", " ", "I", "t", "e", "m", " ", "Q", "u", "a", "n", "t", "i", "t", "y">>
      [] name = "Line Item Value" -> <<"L", "i", "n", "e", " ", "I", "t", "e", "m", " ", "V", "a", "l", "u", "e">>
      [] name = "Unit Price" -> <<"U", "n", "i", "t", " ", "P", "r", "i", "c", "e">>
      [] name = "Weight (Kilograms)" -> <<"W", "e", "i", "g", "h", "t", " ", "(", "K", "i", "l", "o", "g", "r", "a", "m", "s", ")">>
      [] name = "Freight Cost (USD)" -> <<"F", "r", "e", "i", "g", "h", "t", " ", "C", "o", "s", "t", " ", "(", "U", "S", "D", ")">>
      [] name = "Line Item Insurance (USD)" -> <<"L", "i", "n", "e", " ", "I", "t", "e", "m", " ", "I", "n", "s", "u", "r", "a", "n", "c", "e", " ", "(", "U", "S", "D", ")">>
      [] name = "id" -> <<"i", "d">>
      [] name = "project_code" -> <<"p", "r", "o", "j", "e", "c", "t", "_", "c", "o", "d", "e">>
      [] name = "country" -> <<"c", "o", "u", "n", "t", "r", "y">>
      [] name = "shipment_mode" -> <<"s", "h", "i", "p", "m", "e", "n", "t", "_", "m", "o", "d", "e">>
      [] name = "pq_first_sent_to_client_date" -> <<"p", "q", "_", "f", "i", "r", "s", "t", "_", "s", "e", "n", "t", "_", "t", "o", "_", "c", "l", "i", "e", "n", "t", "_", "d", "a", "t", "e">>
      [] name = "scheduled_delivery_date" -> <<"s", "c", "h", "e", "d", "u", "l", "e", "d", "_", "d", "e", "l", "i", "v", "e", "r", "y", "_", "d", "a", "t", "e">>
      [] name = "delivered_to_client_date" -> <<"d", "e", "l", "i", "v", "e", "r", "e", "d", "_", "t", "o", "_", "c", "l", "i", "e", "n", "t", "_", "d", "a", "t", "e">>
      [] name = "delivery_recorded_date" -> <<"d", "e", "l", "i", "v", "e", "r", "y", "_", "r", "e", "c", "o", "r", "d", "e", "d", "_", "d", "a", "t", "e">>
      [] name = "product_group" -> <<"p", "r", "o", "d", "u", "c", "t", "_", "g", "r", "o", "u", "p">>
      [] name = "sub_classification" -> <<"s", "u", "b", "_", "c", "l", "a", "s", "s", "i", "f", "i", "c", "a", "t", "i", "o", "n">>
      [] name = "vendor" -> <<"v", "e", "n", "d", "o", "r">>
      [] name = "item_description" -> <<"i", "t", "e", "m", "_", "d", "e", "s", "c", "r", "i", "p", "t", "i", "o", "n">>
      [] name = "molecule_test_type" -> <<"m", "o", "l", "e", "c", "u", "l", "e", "_", "t", "e", "s", "t", "_", "t", "y", "p", "e">>
      [] name = "brand" -> <<"b", "r", "a", "n", "d">>
      [] name = "dosage" -> <<"d", "o", "s", "a", "g", "e">>
      [] name = "dosage_form" -> <<"d", "o", "s", "a", "g", "e", "_", "f", "o", "r", "m">>
      [] name = "line_item_quantity" -> <<"l", "i", "n", "e", "_", "i", "t", "e", "m", "_", "q", "u", "a", "n", "t", "i", "t", "y">>
      [] name = "line_item_value" -> <<"l", "i", "n", "e", "_", "i", "t", "e", "m", "_", "v", "a", "l", "u", "e">>
      [] name = "unit_price" -> <<"u", "n", "i", "t", "_", "p", "r", "i", "c", "e">>
      [] name = "weight_kilograms" -> <<"w", "e", "i", "g", "h", "t", "_", "k", "i", "l", "o", "g", "r", "a", "m", "s">>
      [] name = "freight_cost_usd" -> <<"f", "r", "e", "i", "g", "h", "t", "_", "c", "o", "s", "t", "_", "u", "s", "d">>
      [] name = "line_item_insurance_usd" -> <<"l", "i", "n", "e", "_", "i", "t", "e", "m", "_", "i", "n", "s", "u", "r", "a", "n", "c", "e", "_", "u", "s", "d">>
      [] name = "country_name" -> <<"c", "o", "u", "n", "t", "r", "y", "_", "n", "a", "m", "e">>
      [] name = "country_id" -> <<"c", "o", "u", "n", "t", "r", "y", "_", "i", "d">>
      [] name = "vendor_name" -> <<"v", "e", "n", "d", "o", "r", "_", "n", "a", "m", "e">>
      [] name = "vendor_id" -> <<"v", "e", "n", "d", "o", "r", "_", "i", "d">>
      [] name = "mode_name" -> <<"m", "o", "d", "e", "_", "n", "a", "m", "e">>
      [] name = "mode_id" -> <<"m", "o", "d", "e", "_", "i", "d">>
      [] name = "product_id" -> <<"p", "r", "o", "d", "u", "c", "t", "_", "i", "d">>
      [] name = "delivery_id" -> <<"d", "e", "l", "i", "v", "e", "r", "y", "_", "i", "d">>

RECURSIVE Name(_)
Name(chars) == IF Len(chars) = 0 THEN "" ELSE Head(chars) \o Name(Tail(chars))

-----------------------------------------------------------------------------
(* Data frames: the column names in order, and the rows, each a function   *)
(* from column name to cell.                                               *)

Frame(columns, rows) == [columns |-> columns, rows |-> rows]

Range(seq) == {seq[k] : k \in 1..Len(seq)}

\* `sub in text`
contains(chars, sub) ==
    \E p \in 0..(Len(chars) - Len(sub)) : SubSeq(chars, p + 1, p + Len(sub)) = sub

RECURSIVE filter_seq(_, _)
filter_seq(seq, keep) ==
    IF Len(seq) = 0 THEN <<>>
    ELSE IF Head(seq) \in keep THEN <<Head(seq)>> \o filter_seq(Tail(seq), keep)
    ELSE filter_seq(Tail(seq), keep)

\* find_date_columns(df): the columns with "date" in their lowercased name
find_date_columns(frame) ==
    filter_seq(frame.columns, {c \in Range(frame.columns) : contains(lower(Spell(c)), <<"d", "a", "t", "e">>)})

\* convert_date_columns(df): the frame with every cell of every date column
\* replaced by parse_date of its stripped text (ret), what is printed (out),
\* and the exception a parse_date call let out (exc)
convert_date_columns(frame, accepts) ==
    LET date_columns == Range(find_date_columns(frame))
        parsed == [k \in 1..Len(frame.rows) |->
                     [c \in date_columns |-> convert_date_cell(frame.rows[k][c], accepts)]]
        failed == {<<k, c>> \in (1..Len(frame.rows)) \X date_columns :
                       parsed[k][c].exc # NoError}
        out == IF date_columns = {} THEN <<[msg |-> "Aucune colonne de date trouvee"]>>
               ELSE <<>>
    IN  IF failed # {}
        THEN [ret |-> frame, out |-> out,
              exc |-> LET kc == CHOOSE x \in failed : TRUE IN parsed[kc[1]][kc[2]].exc]
        ELSE [ret |-> Frame(frame.columns,
                            [k \in 1..Len(frame.rows) |->
                               [c \in DOMAIN frame.rows[k] |->
                                  IF c \in date_columns THEN parsed[k][c].ret
                                  ELSE frame.rows[k][c]]]),
              out |-> out, exc |-> NoError]

-----------------------------------------------------------------------------
(* SpecDate: one call of parse_date, or of convert_date_columns on a frame *)
(* of one row, for each text of DateTexts with up to MaxPad blanks on each *)
(* side and for the missing values.                                        *)

MaxPad == 1

MonthSegs == {<<"6">>, <<"0", "6">>, <<"2">>, <<"1", "3">>}
DaySegs == {<<"2">>, <<"2", "9">>, <<"3", "1">>, <<"0">>}
Year2Segs == {<<"0", "6">>, <<"0", "8">>, <<"9", "9">>}
Year4Segs == {<<"2", "0", "0", "6">>, <<"2", "0", "0", "8">>}
AbbrSegs == {<<"J", "u", "n">>, <<"F", "E", "B">>, <<"F", "o", "o">>}

join3(a, sep, b, c) == a \o <<sep>> \o b \o <<sep>> \o c

DateTexts ==
    {join3(m, "/", d, y) : m \in MonthSegs, d \in DaySegs, y \in Year2Segs \cup {<<"2", "0", "0", "6">>}}
    \cup {join3(d, "-", b, y) : d \in DaySegs, b \in AbbrSegs, y \in Year2Segs}
    \cup {join3(y, "-", m, d) : y \in Year4Segs \cup {<<"0", "6">>}, m \in MonthSegs, d \in DaySegs}
    \cup {<<>>, PrePQProcess, DateNotCaptured, <<"N", "/", "A">>, <<"x">>}

Blanks(n) == [k \in 1..n |-> " "]

DateValues ==
    {Str(Blanks(a) \o t \o Blanks(b)) : a \in 0..MaxPad, b \in 0..MaxPad, t \in DateTexts}
    \cup {NaN, None, NaT, IntV(20060602)}


\* the frame convert_date_columns is handed in SpecDate
DateFrame(v) ==
    Frame(<<"id", "scheduled_delivery_date">>,
          <<("id" :> IntV(1)) @@ ("scheduled_delivery_date" :> v)>>)

InitDate ==
    /\ pc = "date"
    /\ value \in DateValues
    /\ parser_accepts \in BOOLEAN
    /\ result = None
    /\ stdout = <<>>
    /\ error = NoError
    /\ column = Idle /\ dataset = Idle
    /\ source = Idle /\ dataframes = Idle /\ df = Idle
    /\ countries = Idle /\ vendors = Idle /\ transport_modes = Idle /\ products = Idle
    /\ pg_conn = "none" /\ db = <<>> /\ stmt = 0

ParseDateCall ==
    /\ pc = "date"
    /\ LET r == parse_date(value, parser_accepts)
       IN  /\ result' = r.ret
           /\ error' = r.exc
    /\ pc' = "parsed"
    /\ UNCHANGED <<value, column, dataset, stdout, source, df, tables, pipeline,
                   parser_accepts>>

ConvertDateColumnsCall ==
    /\ pc = "date"
    /\ LET r == convert_date_columns(DateFrame(value), parser_accepts)
       IN  /\ df' = r.ret
           /\ stdout' = stdout \o r.out
           /\ error' = r.exc
    /\ source' = DateFrame(value)
    /\ pc' = "converted"
    /\ UNCHANGED <<value, column, dataset, result, tables, pipeline, parser_accepts>>

NextDate == ParseDateCall \/ ConvertDateColumnsCall

SpecDate == InitDate /\ [][NextDate]_vars

Sentinels == {<<>>, PrePQProcess, DateNotCaptured}

MatchesAFormat(chars) == \E k \in 1..Len(DATE_FORMATS) : ~Raised(strptime(chars, DATE_FORMATS[k]))

\* the cases in which the claim asks for an absent result
MustBeAbsent(v) ==
    \/ isna(v)
    \/ /\ IsStr(v)
       /\ \/ strip(v.s) \in Sentinels
          \/ ~MatchesAFormat(strip(v.s)) /\ ~(parser_accepts /\ strip(v.s) \notin NoDateTexts)

DateOrAbsent(v) == IsDatetime(v) \/ isna(v)

\* C8: parse_date and convert_date_columns raise nothing and answer a date or
\* an absent value; absent for a missing value, for the empty text and the two
\* sentinels (blanks around them or not), and for a text that no format and
\* not the fallback parser accepts.
C8_DateParsingTotal ==
    /\ pc \in {"parsed", "converted"} => error = NoError
    /\ pc = "parsed" =>
          /\ DateOrAbsent(result)
          /\ MustBeAbsent(value) => isna(result)
    /\ pc = "converted" =>
          LET cell == df.rows[1]["scheduled_delivery_date"]
          IN  /\ DateOrAbsent(cell)
              /\ MustBeAbsent(value) => isna(cell)
              /\ df.rows[1]["id"] = source.rows[1]["id"]

\* parse_date was handed a sentinel with a blank on each side and answered absent
C8_Witness ==
    /\ pc = "parsed"
    /\ value = Str(<<" ">> \o PrePQProcess \o <<" ">>)
    /\ isna(result)

-----------------------------------------------------------------------------
(* The columns of the cleaned frame (SELECTED_COLUMNS), of the dimension   *)
(* tables and of the fact table.                                           *)



SELECTED_COLUMNS ==
    <<"id", "country", "shipment_mode", "scheduled_delivery_date",
      "delivered_to_client_date", "delivery_recorded_date",
      "product_group", "sub_classification", "vendor",
      "item_description", "molecule_test_type", "brand",
      "dosage", "dosage_form", "line_item_quantity",
      "line_item_value", "unit_price", "weight_kilograms",
      "freight_cost_usd", "line_item_insurance_usd">>

-----------------------------------------------------------------------------
(* The pandas operations create_dimension_tables is made of.  An indexed   *)
(* frame is a sequence of [index, row]: the row labels pandas keeps.       *)

\* df[[columns]]: the rows cut down to the columns, labelled 0, 1, ...
project(rows, columns) ==
    [k \in 1..Len(rows) |-> [index |-> k - 1, row |-> [c \in Range(columns) |-> rows[k][c]]]]

\* drop_duplicates(keep="last"): the last row of each combination stays.
drop_duplicates_keep_last(ix) ==
    LET keep == {k \in 1..Len(ix) : \A j \in (k + 1)..Len(ix) : ix[j].row # ix[k].row}
        RECURSIVE take(_)
        take(k) == IF k > Len(ix) THEN <<>>
                   ELSE IF k \in keep THEN <<ix[k]>> \o take(k + 1) ELSE take(k + 1)
    IN  take(1)

\* drop_duplicates(): the first row of each combination stays, with its label
\* (missing values compare equal)
drop_duplicates(ix) ==
    LET keep == {k \in 1..Len(ix) : \A j \in 1..(k - 1) : ix[j].row # ix[k].row}
        RECURSIVE take(_)
        take(k) == IF k > Len(ix) THEN <<>>
                   ELSE IF k \in keep THEN <<ix[k]>> \o take(k + 1) ELSE take(k + 1)
    IN  take(1)

\* reset_index(drop=True): the rows relabelled 0, 1, ...
reset_index(ix) == [k \in 1..Len(ix) |-> [index |-> k - 1, row |-> ix[k].row]]

\* table[id_column] = table.index + 1
index_plus_one(ix, id_column) ==
    [k \in 1..Len(ix) |-> ix[k].row @@ (id_column :> IntV(ix[k].index + 1))]

\* rename(columns={old: new}), one row
rename_in_row(row, old, new) ==
    [c \in (DOMAIN row \ {old}) \cup {new} |-> IF c = new THEN row[old] ELSE row[c]]

rename(rows, old, new) == [k \in 1..Len(rows) |-> rename_in_row(rows[k], old, new)]

rename_columns(columns, old, new) ==
    [k \in 1..Len(columns) |-> IF columns[k] = old THEN new ELSE columns[k]]

\* A left join that matches on the first key column alone.
merge_left_first_key(left, right_frame, left_on, right_on) ==
    LET right == right_frame.rows
        right_columns == Range(right_frame.columns)
        matches(l) ==
            LET hit == {j \in 1..Len(right) : right[j][right_on[1]] = l[left_on[1]]}
                RECURSIVE take(_)
                take(j) == IF j > Len(right) THEN <<>>
                           ELSE IF j \in hit THEN <<l @@ right[j]>> \o take(j + 1)
                           ELSE take(j + 1)
            IN  take(1)
        RECURSIVE join(_)
        join(k) ==
            IF k > Len(left) THEN <<>>
            ELSE (IF matches(left[k]) = <<>>
                  THEN <<left[k] @@ [c \in right_columns |-> NaN]>>
                  ELSE matches(left[k])) \o join(k + 1)
    IN  join(1)

\* left.merge(right, left_on=..., right_on=..., how="left"): in the order of
\* the left rows, each left row once per right row with the same key (missing
\* values match each other), or once with missing right columns when none has
merge_left(left, right_frame, left_on, right_on) ==
    LET right == right_frame.rows
        right_columns == Range(right_frame.columns)
        matches(l) ==
            LET hit == {j \in 1..Len(right) :
                           \A i \in 1..Len(left_on) : right[j][right_on[i]] = l[left_on[i]]}
                RECURSIVE take(_)
                take(j) == IF j > Len(right) THEN <<>>
                           ELSE IF j \in hit THEN <<l @@ right[j]>> \o take(j + 1)
                           ELSE take(j + 1)
            IN  take(1)
        RECURSIVE join(_)
        join(k) ==
            IF k > Len(left) THEN <<>>
            ELSE (IF matches(left[k]) = <<>>
                  THEN <<left[k] @@ [c \in right_columns |-> NaN]>>
                  ELSE matches(left[k])) \o join(k + 1)
    IN  join(1)

\* df[columns]: KeyError when a column is missing
select(frame, columns) ==
    IF \E c \in Range(columns) : c \notin Range(frame.columns)
    THEN [raised |-> "KeyError"]
    ELSE Frame(columns, [k \in 1..Len(frame.rows) |->
                           [c \in Range(columns) |-> frame.rows[k][c]]])

-----------------------------------------------------------------------------
(* create_dimension_tables.                                                *)

product_columns ==
    <<"product_group", "sub_classification", "item_description",
      "molecule_test_type", "brand", "dosage", "dosage_form">>

\* The vendors joined on the country column.
vendor_join_on_country == [left_on |-> <<"country">>, right_on |-> <<"vendor_name">>]

country_join == [left_on |-> <<"country">>, right_on |-> <<"country_name">>]
vendor_join == [left_on |-> <<"vendor">>, right_on |-> <<"vendor_name">>]
mode_join == [left_on |-> <<"shipment_mode">>, right_on |-> <<"mode_name">>]
product_join == [left_on |-> product_columns, right_on |-> product_columns]

final_columns ==
    <<"delivery_id", "country_id", "mode_id", "scheduled_delivery_date",
      "delivered_to_client_date", "delivery_recorded_date", "product_id",
      "vendor_id", "line_item_quantity", "line_item_value", "unit_price",
      "weight_kilograms", "freight_cost_usd", "line_item_insurance_usd">>

\* one dimension table: the distinct key combinations in order of first
\* appearance, numbered from 1
dimension_rows(rows, key_columns, id_column) ==
    index_plus_one(reset_index(drop_duplicates(project(rows, key_columns))), id_column)

\* create_dimension_tables(df): the fact table and the four dimension tables
create_dimension_tables(frame) ==
    LET t_countries ==
            Frame(<<"country_name", "country_id">>,
                  rename(dimension_rows(frame.rows, <<"country">>, "country_id"),
                         "country", "country_name"))
        t_vendors ==
            Frame(<<"vendor_name", "vendor_id">>,
                  rename(dimension_rows(frame.rows, <<"vendor">>, "vendor_id"),
                         "vendor", "vendor_name"))
        t_modes ==
            Frame(<<"mode_name", "mode_id">>,
                  rename(dimension_rows(frame.rows, <<"shipment_mode">>, "mode_id"),
                         "shipment_mode", "mode_name"))
        t_products ==
            Frame(product_columns \o <<"product_id">>,
                  dimension_rows(frame.rows, product_columns, "product_id"))
        m1 == merge_left(frame.rows, t_countries, country_join.left_on, country_join.right_on)
        m2 == merge_left(m1, t_vendors, vendor_join.left_on, vendor_join.right_on)
        m3 == merge_left(m2, t_modes, mode_join.left_on, mode_join.right_on)
        m4 == merge_left(m3, t_products, product_join.left_on, product_join.right_on)
        merged_columns ==
            frame.columns \o t_countries.columns \o t_vendors.columns \o t_modes.columns
                \o <<"product_id">>
        df_with_ids ==
            select(Frame(rename_columns(merged_columns, "id", "delivery_id"),
                         rename(m4, "id", "delivery_id")),
                   final_columns)
    IN  [df_with_ids |-> df_with_ids, countries |-> t_countries, vendors |-> t_vendors,
         transport_modes |-> t_modes, products |-> t_products]

-----------------------------------------------------------------------------
(* SpecDim: one call of create_dimension_tables on every frame of at most  *)
(* MaxDimRows rows drawn from DimRows.                                     *)

MaxDimRows == 3

DimCountries == {Str("VN"), NaN}
DimModes == {Str("Air"), Str("Truck")}

\* three products: the second differs from the first in the dosage form alone,
\* the third in the product group alone
DimProducts == {<<"ARV", "Tablet">>, <<"ARV", "Capsule">>, <<"HRDT", "Tablet">>}

\* the k-th row of a frame: its id, vendor, dates and measures follow from k
\* (the vendors alternate, so that the first vendor comes back in row 3)
DimRow(k, country, mode, product) ==
    [id |-> IntV(100 + k),
     country |-> country,
     shipment_mode |-> mode,
     scheduled_delivery_date |-> Datetime(2006, 6, k),
     delivered_to_client_date |-> Datetime(2006, 7, k),
     delivery_recorded_date |-> NaT,
     product_group |-> Str(product[1]),
     sub_classification |-> Str("Adult"),
     vendor |-> IF k % 2 = 1 THEN Str("SCMS") ELSE Str("Abbott"),
     item_description |-> Str("Lamivudine 150mg"),
     molecule_test_type |-> Str("Lamivudine"),
     brand |-> NaN,
     dosage |-> Str("150mg"),
     dosage_form |-> Str(product[2]),
     line_item_quantity |-> IntV(10 * k),
     line_item_value |-> FloatV(5 * k),
     unit_price |-> FloatV(k),
     weight_kilograms |-> FloatV(2505 + k),
     freight_cost_usd |-> Str("Freight Included in Commodity Cost"),
     line_item_insurance_usd |-> FloatV(7 * k)]

\* the rows a frame may hold at place k; after the third place the mode is
\* the first one, the country and the product still vary
DimRowsAt(k) ==
    {DimRow(k, c, m, p) :
        c \in DimCountries,
        m \in IF k <= 3 THEN DimModes ELSE {Str("Air")},
        p \in DimProducts}

RECURSIVE DimRowSeqs(_)
DimRowSeqs(n) ==
    IF n = 0 THEN {<<>>}
    ELSE {rows \o <<r>> : rows \in DimRowSeqs(n - 1), r \in DimRowsAt(n)}

DimFrames == {Frame(SELECTED_COLUMNS, rows) : rows \in UNION {DimRowSeqs(n) : n \in 0..MaxDimRows}}

InitDim ==
    /\ pc = "dimensions"
    /\ source \in DimFrames
    /\ df = source
    /\ countries = Idle /\ vendors = Idle /\ transport_modes = Idle /\ products = Idle
    /\ value = None /\ column = Idle /\ dataset = Idle /\ result = None
    /\ stdout = <<>> /\ error = NoError
    /\ dataframes = Idle /\ pg_conn = "none" /\ db = <<>> /\ stmt = 0
    /\ parser_accepts = FALSE

CreateDimensionTablesCall ==
    /\ pc = "dimensions"
    /\ LET r == create_dimension_tables(df)
       IN  /\ df' = r.df_with_ids
           /\ countries' = r.countries
           /\ vendors' = r.vendors
           /\ transport_modes' = r.transport_modes
           /\ products' = r.products
    /\ pc' = "dimensions_done"
    /\ UNCHANGED <<value, column, dataset, result, stdout, source, pipeline, error,
                   parser_accepts>>

NextDim == CreateDimensionTablesCall

SpecDim == InitDim /\ [][NextDim]_vars

\* the natural key of a row, as the tuple of its cells in the key columns
KeyOf(row, key_columns) == [i \in 1..Len(key_columns) |-> row[key_columns[i]]]

\* position of the first row of the input with that natural key
FirstAt(rows, key_columns, key) ==
    CHOOSE k \in 1..Len(rows) :
        /\ KeyOf(rows[k], key_columns) = key
        /\ \A j \in 1..(k - 1) : KeyOf(rows[j], key_columns) # key

\* a dimension table holds each distinct natural key of the input once, in
\* order of first appearance, numbered 1..N
IsDimensionOf(table, input, input_key, table_key, id_column) ==
    LET keys == [k \in 1..Len(table.rows) |-> KeyOf(table.rows[k], table_key)]
    IN  /\ Range(keys) = {KeyOf(input.rows[k], input_key) : k \in 1..Len(input.rows)}
        /\ \A j, k \in 1..Len(keys) : j # k => keys[j] # keys[k]
        /\ \A k \in 1..Len(keys) : table.rows[k][id_column] = IntV(k)
        /\ \A j, k \in 1..Len(keys) :
              j < k => FirstAt(input.rows, input_key, keys[j]) < FirstAt(input.rows, input_key, keys[k])

\* C3: each dimension table has one row per distinct natural key of the
\* input, keyed 1..N in order of first appearance.
C3_DimensionKeys ==
    pc = "dimensions_done" =>
        /\ IsDimensionOf(countries, source, <<"country">>, <<"country_name">>, "country_id")
        /\ IsDimensionOf(vendors, source, <<"vendor">>, <<"vendor_name">>, "vendor_id")
        /\ IsDimensionOf(transport_modes, source, <<"shipment_mode">>, <<"mode_name">>, "mode_id")
        /\ IsDimensionOf(products, source, product_columns, product_columns, "product_id")

\* three input rows whose country repeats before a new one appears, so that
\* the second key goes to the third row
C3_Witness ==
    /\ pc = "dimensions_done"
    /\ Len(source.rows) = 3
    /\ source.rows[1]["country"] = source.rows[2]["country"]
    /\ source.rows[3]["country"] # source.rows[1]["country"]
    /\ Len(countries.rows) = 2
    /\ countries.rows[2]["country_id"] = IntV(2)
    /\ Len(products.rows) = 3

\* the foreign key of a fact row names a row of the table whose natural key
\* is the one of the source row
Resolves(fact_row, fk_column, table, table_key, id_column, source_row, source_key) ==
    \E j \in 1..Len(table.rows) :
        /\ table.rows[j][id_column] = fact_row[fk_column]
        /\ KeyOf(table.rows[j], table_key) = KeyOf(source_row, source_key)

\* C4: each of the four foreign keys of each fact row is the key of a row of
\* its dimension table, and that row carries the natural key of the source
\* row the fact row was built from (all seven attributes for the product).
C4_ReferentialIntegrity ==
    pc = "dimensions_done" =>
        /\ Len(df.rows) = Len(source.rows)
        /\ \A k \in 1..Len(df.rows) :
              /\ Resolves(df.rows[k], "country_id", countries, <<"country_name">>, "country_id",
                          source.rows[k], <<"country">>)
              /\ Resolves(df.rows[k], "vendor_id", vendors, <<"vendor_name">>, "vendor_id",
                          source.rows[k], <<"vendor">>)
              /\ Resolves(df.rows[k], "mode_id", transport_modes, <<"mode_name">>, "mode_id",
                          source.rows[k], <<"shipment_mode">>)
              /\ Resolves(df.rows[k], "product_id", products, product_columns, "product_id",
                          source.rows[k], product_columns)

\* two fact rows that share the product group and differ in the dosage form
\* carry different product keys; a row without country carries a country key
C4_Witness ==
    /\ pc = "dimensions_done"
    /\ Len(df.rows) = 3
    /\ source.rows[1]["product_group"] = source.rows[2]["product_group"]
    /\ source.rows[1]["dosage_form"] # source.rows[2]["dosage_form"]
    /\ df.rows[1]["product_id"] = IntV(1)
    /\ df.rows[2]["product_id"] = IntV(2)
    /\ source.rows[3]["country"] = NaN
    /\ df.rows[3]["country_id"] = IntV(2)

kept_columns ==
    <<"scheduled_delivery_date", "delivered_to_client_date", "delivery_recorded_date",
      "line_item_quantity", "line_item_value", "unit_price", "weight_kilograms",
      "freight_cost_usd", "line_item_insurance_usd">>

\* C10: the fact table has one row per input row, in the input's order, with
\* delivery_id the row's id and the date and measure columns as they were.
C10_FactRowsPreserved ==
    pc = "dimensions_done" =>
        /\ df.columns = final_columns
        /\ Len(df.rows) = Len(source.rows)
        /\ \A k \in 1..Len(df.rows) :
              /\ DOMAIN df.rows[k] = Range(final_columns)
              /\ df.rows[k]["delivery_id"] = source.rows[k]["id"]
              /\ \A c \in Range(kept_columns) : df.rows[k][c] = source.rows[k][c]

\* three input rows of the same country and mode, of two vendors and two
\* products, give three fact rows
C10_Witness ==
    /\ pc = "dimensions_done"
    /\ Len(source.rows) = 3
    /\ Len(countries.rows) = 1 /\ Len(vendors.rows) = 2 /\ Len(transport_modes.rows) = 1
    /\ Len(products.rows) = 2
    /\ Len(df.rows) = 3
    /\ df.rows[3]["delivery_id"] = IntV(103)

-----------------------------------------------------------------------------
(* clean_column_names.                                                     *)

\* str.translate(transformations), one character: its replacement
translate_char(c) ==
    CASE c \in {"-", " ", "/", "\\"} -> <<"_">>
      [] c \in {"$", "?", "%", ")", "("} -> <<>>
      [] OTHER -> <<c>>

RECURSIVE translate(_)
translate(chars) ==
    IF Len(chars) = 0 THEN <<>>
    ELSE translate_char(Head(chars)) \o translate(Tail(chars))

\* col.lower().translate(transformations)
clean_column_name(name) == Name(translate(lower(Spell(name))))

\* df.columns = [...]: the columns renamed in place, the cells where they were
clean_frame(frame) ==
    Frame([k \in 1..Len(frame.columns) |-> clean_column_name(frame.columns[k])],
          [r \in 1..Len(frame.rows) |->
             [n \in {clean_column_name(c) : c \in Range(frame.columns)} |->
                frame.rows[r][CHOOSE c \in Range(frame.columns) : clean_column_name(c) = n]]])

clean_column_names(frames) == [k \in 1..Len(frames) |-> clean_frame(frames[k])]

-----------------------------------------------------------------------------
(* Step 5 of main: the references of the two columns resolved against a    *)
(* copy of the frame, then astype(float, errors='ignore').                 *)

\* str(x) of a float in tenths: 250.5, 358.0
str_float(tenths) == digits_of(tenths \div 10) \o <<".">> \o digits_of(tenths % 10)

\* Series.astype(str), one cell
astype_str(v) == IF "f" \in DOMAIN v THEN Str(str_float(v.f)) ELSE Str(str(v))

\* float(text) succeeds on "nan" and on digits with at most one point and one
\* digit after it (the numbers of this model), and raises ValueError otherwise
float_parts(chars) == split(strip(chars), ".")

is_float_text(chars) ==
    \/ lower(strip(chars)) = <<"n", "a", "n">>
    \/ /\ Len(float_parts(chars)) = 1
       /\ IsDigits(float_parts(chars)[1])
    \/ /\ Len(float_parts(chars)) = 2
       /\ IsDigits(float_parts(chars)[1])
       /\ IsDigits(float_parts(chars)[2]) /\ Len(float_parts(chars)[2]) = 1

float_of_text(chars) ==
    IF lower(strip(chars)) = <<"n", "a", "n">> THEN NaN
    ELSE IF Len(float_parts(chars)) = 1 THEN FloatV(10 * int(float_parts(chars)[1]))
    ELSE FloatV(10 * int(float_parts(chars)[1]) + int(float_parts(chars)[2]))

can_float(v) ==
    \/ "f" \in DOMAIN v \/ "i" \in DOMAIN v \/ "nan" \in DOMAIN v
    \/ IsStr(v) /\ is_float_text(v.s)

to_float(v) ==
    CASE "f" \in DOMAIN v -> v
      [] "i" \in DOMAIN v -> FloatV(10 * v.i)
      [] "nan" \in DOMAIN v -> NaN
      [] IsStr(v) -> float_of_text(v.s)

\* Series.astype(float, errors='ignore'): every cell as a float, or - when one
\* cell is no number - the series as it was
astype_float_ignore(cells) ==
    IF \A k \in 1..Len(cells) : can_float(cells[k])
    THEN [k \in 1..Len(cells) |-> to_float(cells[k])]
    ELSE cells

\* df[col].astype(str).apply(lambda x: resolve_id_reference(x, dataset, col)):
\* per cell, what the call returns and prints
resolve_column(rows, dataset_rows, col) ==
    [k \in 1..Len(rows) |-> resolve_id_reference(astype_str(rows[k][col]), dataset_rows, col)]

RECURSIVE concat_out(_, _)
concat_out(calls, k) ==
    IF k > Len(calls) THEN <<>> ELSE calls[k].out \o concat_out(calls, k + 1)

\* one turn of the loop `for col in [...]`: the column of df replaced
resolve_in_frame(frame, dataset_rows, col) ==
    LET calls == resolve_column(frame.rows, dataset_rows, col)
        cells == astype_float_ignore([k \in 1..Len(calls) |-> calls[k].ret])
    IN  [ret |-> Frame(frame.columns,
                       [k \in 1..Len(frame.rows) |->
                          [c \in DOMAIN frame.rows[k] |->
                             IF c = col THEN cells[k] ELSE frame.rows[k][c]]]),
         out |-> concat_out(calls, 1)]

resolved_columns == <<"freight_cost_usd", "weight_kilograms">>

\* Step 6: df.dropna(subset=[...]): the rows with a missing cell in one of the
\* columns leave
dropna_columns == <<"shipment_mode", "line_item_insurance_usd">>

dropna(frame, subset) ==
    LET RECURSIVE keep(_)
        keep(k) == IF k > Len(frame.rows) THEN <<>>
                   ELSE IF \E c \in Range(subset) : isna(frame.rows[k][c]) THEN keep(k + 1)
                   ELSE <<frame.rows[k]>> \o keep(k + 1)
    IN  Frame(frame.columns, keep(1))

-----------------------------------------------------------------------------
(* main(): its statements in order, one action for each, inside the try    *)
(* block of lines 6-77.                                                    *)

foreign_keys ==
    <<[column |-> "country_id", ref_table |-> "countries", ref_column |-> "country_id"],
      [column |-> "vendor_id", ref_table |-> "vendors", ref_column |-> "vendor_id"],
      [column |-> "mode_id", ref_table |-> "transport_modes", ref_column |-> "mode_id"],
      [column |-> "product_id", ref_table |-> "products", ref_column |-> "product_id"]>>

\* Steps 1-8 (lines 8-34): load, clean, convert, select, resolve, filter,
\* extract the dimensions, connect
transform_statements ==
    <<[op |-> "load_csv_files"],
      [op |-> "clean_column_names"],
      [op |-> "convert_date_columns"],
      [op |-> "select_columns"],
      [op |-> "resolve_references"],
      [op |-> "dropna"],
      [op |-> "create_dimension_tables"],
      [op |-> "setup_postgres_database"]>>

\* Step 9 (lines 37-47): the four dimension tables
dimension_statements ==
    <<[op |-> "create_table", table |-> "countries", foreign_keys |-> <<>>],
      [op |-> "insert_data", table |-> "countries"],
      [op |-> "create_table", table |-> "vendors", foreign_keys |-> <<>>],
      [op |-> "insert_data", table |-> "vendors"],
      [op |-> "create_table", table |-> "transport_modes", foreign_keys |-> <<>>],
      [op |-> "insert_data", table |-> "transport_modes"],
      [op |-> "create_table", table |-> "products", foreign_keys |-> <<>>],
      [op |-> "insert_data", table |-> "products"]>>

\* Step 10 (lines 56-57): the fact table
fact_statements ==
    <<[op |-> "create_table", table |-> "deliveries", foreign_keys |-> foreign_keys],
      [op |-> "insert_data", table |-> "deliveries"]>>

\* Step 11 and the end (lines 60-73)
closing_statements ==
    <<[op |-> "display_head", table |-> "deliveries"],
      [op |-> "display_head", table |-> "countries"],
      [op |-> "display_head", table |-> "vendors"],
      [op |-> "display_head", table |-> "transport_modes"],
      [op |-> "display_head", table |-> "products"],
      [op |-> "display_summary_stats", table |-> "deliveries"],
      [op |-> "display_value_counts", table |-> "transport_modes", column |-> "mode_name"],
      [op |-> "display_value_counts", table |-> "countries", column |-> "country_name"],
      [op |-> "close"],
      [op |-> "return"]>>

\* The fact table loaded before the dimension tables.
main_body_fact_first ==
    transform_statements \o fact_statements \o dimension_statements \o closing_statements

\* The rows filtered before the references are resolved (steps 5 and 6 swapped).
main_body_dropna_first ==
    [k \in 1..Len(transform_statements) |->
        transform_statements[IF k = 5 THEN 6 ELSE IF k = 6 THEN 5 ELSE k]]
    \o dimension_statements \o fact_statements \o closing_statements

\* the statements of main's try block in the order they are written
main_body ==
    transform_statements \o dimension_statements \o fact_statements \o closing_statements

\* main() is about to run a statement with this name
At(op) == pc = "main" /\ stmt \in 1..Len(main_body) /\ main_body[stmt].op = op

\* the frame main() holds for a table name
TableFrame(table) ==
    CASE table = "countries" -> countries
      [] table = "vendors" -> vendors
      [] table = "transport_modes" -> transport_modes
      [] table = "products" -> products
      [] table = "deliveries" -> df

call == <<value, column, result>>
frames == <<dataframes, df, dataset, countries, vendors, transport_modes, products>>

\* the statement is done, the next one follows
Advance ==
    /\ pc' = "main"
    /\ stmt' = stmt + 1
    /\ error' = error

\* The handler that prints and goes on with the next statement.
Except_continue ==
    /\ pc = "except"
    /\ stdout' = stdout \o <<[msg |-> "Erreur dans le pipeline", e |-> error]>>
    /\ pc' = "main"
    /\ stmt' = stmt + 1
    /\ error' = NoError
    /\ UNCHANGED <<call, frames, source, pg_conn, db, parser_accepts>>

\* except Exception as e: print(...); raise  (lines 75-77)
Except ==
    /\ pc = "except"
    /\ stdout' = stdout \o <<[msg |-> "Erreur dans le pipeline", e |-> error]>>
    /\ pc' = "raised"
    /\ UNCHANGED <<call, frames, source, pg_conn, db, parser_accepts, stmt, error>>

\* the statement raises: what the called function prints on its way out, then
\* the exception reaches main's except clause
Raise(type, printed) ==
    /\ pc' = "except"
    /\ error' = type
    /\ stdout' = stdout \o printed
    /\ UNCHANGED <<call, frames, source, pg_conn, db, parser_accepts, stmt>>

Malformed == [malformed |-> TRUE]

\* load_csv_files("dataset"): the frames of the .csv files in the order of
\* their names, or the exception
load_csv_files(directory) ==
    LET csv == filter_seq(directory.files, {f \in Range(directory.files) : f.csv})
    IN  IF ~directory.exists
        THEN [raised |-> "FileNotFoundError", out |-> <<[msg |-> "Le dossier n'existe pas"]>>]
        ELSE IF \E k \in 1..Len(csv) : csv[k].content = Malformed
        THEN [raised |-> "ParserError",
              out |-> <<[msg |-> "Erreur lors de la lecture des fichiers CSV"]>>]
        ELSE IF csv = <<>>
        THEN [raised |-> "ValueError", out |-> <<>>]
        ELSE [ret |-> [k \in 1..Len(csv) |-> csv[k].content],
              out |-> <<[msg |-> "fichiers CSV charges", n |-> Len(csv)]>>]

LoadCsvFiles ==
    /\ At("load_csv_files")
    /\ LET r == load_csv_files(source)
       IN  \/ /\ ~Raised(r)
              /\ dataframes' = r.ret
              /\ stdout' = stdout \o r.out
              /\ Advance
              /\ UNCHANGED <<call, df, dataset, tables, source, pg_conn, db, parser_accepts>>
           \/ /\ Raised(r)
              /\ Raise(r.raised, r.out)

CleanColumnNames ==
    /\ At("clean_column_names")
    /\ dataframes' = clean_column_names(dataframes)
    /\ Advance
    /\ UNCHANGED <<call, df, dataset, tables, source, pg_conn, db, parser_accepts, stdout>>

\* dataframes = [convert_date_columns(df) for df in dataframes]
ConvertDateColumns ==
    /\ At("convert_date_columns")
    /\ LET r == [k \in 1..Len(dataframes) |-> convert_date_columns(dataframes[k], parser_accepts)]
       IN  \/ /\ \A k \in 1..Len(r) : r[k].exc = NoError
              /\ dataframes' = [k \in 1..Len(r) |-> r[k].ret]
              /\ stdout' = stdout \o concat_out(r, 1)
              /\ Advance
              /\ UNCHANGED <<call, df, dataset, tables, source, pg_conn, db, parser_accepts>>
           \/ /\ \E k \in 1..Len(r) : r[k].exc # NoError
              /\ Raise(r[CHOOSE k \in 1..Len(r) : r[k].exc # NoError].exc, <<>>)

\* df = dataframes[0][SELECTED_COLUMNS].copy()
SelectColumns ==
    /\ At("select_columns")
    /\ LET r == select(dataframes[1], SELECTED_COLUMNS)
       IN  \/ /\ ~Raised(r)
              /\ df' = r
              /\ Advance
              /\ UNCHANGED <<call, dataframes, dataset, tables, source, pg_conn, db,
                             parser_accepts, stdout>>
           \/ /\ Raised(r)
              /\ Raise(r.raised, <<>>)

\* dataset = df.copy(); for col in [...]: df[col] = ...
ResolveReferences ==
    /\ At("resolve_references")
    /\ LET first == resolve_in_frame(df, df.rows, resolved_columns[1])
           second == resolve_in_frame(first.ret, df.rows, resolved_columns[2])
       IN  /\ dataset' = df
           /\ df' = second.ret
           /\ stdout' = stdout \o first.out \o second.out
    /\ Advance
    /\ UNCHANGED <<call, dataframes, tables, source, pg_conn, db, parser_accepts>>

DropNa ==
    /\ At("dropna")
    /\ df' = dropna(df, dropna_columns)
    /\ stdout' = stdout \o <<[msg |-> "Apres nettoyage, lignes restantes", n |-> Len(df'.rows)]>>
    /\ Advance
    /\ UNCHANGED <<call, dataframes, dataset, tables, source, pg_conn, db, parser_accepts>>

CreateDimensionTables ==
    /\ At("create_dimension_tables")
    /\ LET r == create_dimension_tables(df)
       IN  /\ df' = r.df_with_ids
           /\ countries' = r.countries
           /\ vendors' = r.vendors
           /\ transport_modes' = r.transport_modes
           /\ products' = r.products
    /\ Advance
    /\ UNCHANGED <<call, dataframes, dataset, source, pg_conn, db, parser_accepts, stdout>>

\* setup_postgres_database(): the connection, or the exception psycopg2 raised
SetupPostgresDatabase ==
    /\ At("setup_postgres_database")
    /\ \/ /\ pg_conn' = "open"
          /\ db' = db \o <<[op |-> "connect"]>>
          /\ stdout' = stdout \o <<[msg |-> "Connexion etablie"]>>
          /\ Advance
          /\ UNCHANGED <<call, frames, source, parser_accepts>>
       \/ Raise("OperationalError", <<[msg |-> "Erreur lors de la configuration de la base"]>>)

\* str.endswith('_id')
endswith_id(name) ==
    LET chars == Spell(name)
    IN  Len(chars) >= 3 /\ SubSeq(chars, Len(chars) - 2, Len(chars)) = <<"_", "i", "d">>

\* the columns create_table declares PRIMARY KEY (lines 155-158)
primary_key(table, columns) ==
    {c \in Range(columns) :
        \/ table = "deliveries" /\ c = "delivery_id"
        \/ table # "deliveries" /\ endswith_id(c)}

\* create_table(pg_conn, table_name, df, foreign_keys): CREATE TABLE IF NOT
\* EXISTS is executed, or an exception is printed and raised again
CreateTable ==
    /\ At("create_table")
    /\ LET s == main_body[stmt]
       IN  \/ /\ db' = db \o <<[op |-> "create_table", table |-> s.table,
                                columns |-> TableFrame(s.table).columns,
                                primary_key |-> primary_key(s.table, TableFrame(s.table).columns),
                                foreign_keys |-> s.foreign_keys]>>
              /\ stdout' = stdout \o <<[msg |-> "Table creee ou deja existante", table |-> s.table]>>
              /\ Advance
              /\ UNCHANGED <<call, frames, source, pg_conn, parser_accepts>>
           \/ Raise("DatabaseError",
                    <<[msg |-> "Erreur lors de la creation de la table", table |-> s.table]>>)

\* tuple(None if pd.isna(val) else val for val in row), the cells in column order
insert_tuple(columns, row) ==
    [k \in 1..Len(columns) |-> IF isna(row[columns[k]]) THEN None ELSE row[columns[k]]]

\* insert_data(pg_conn, table_name, df): the rows are inserted, or an
\* exception is printed and raised again
InsertData ==
    /\ At("insert_data")
    /\ LET s == main_body[stmt]
           f == TableFrame(s.table)
       IN  \/ /\ db' = db \o <<[op |-> "insert", table |-> s.table,
                                rows |-> [k \in 1..Len(f.rows) |-> insert_tuple(f.columns, f.rows[k])]]>>
              /\ stdout' = stdout \o <<[msg |-> "lignes inserees", table |-> s.table,
                                        n |-> Len(f.rows)]>>
              /\ Advance
              /\ UNCHANGED <<call, frames, source, pg_conn, parser_accepts>>
           \/ Raise("DatabaseError",
                    <<[msg |-> "Erreur lors de l'insertion des donnees", table |-> s.table]>>)

\* display_head, display_summary_stats, display_value_counts: prints only
Display ==
    /\ pc = "main" /\ stmt \in 1..Len(main_body)
    /\ main_body[stmt].op \in {"display_head", "display_summary_stats", "display_value_counts"}
    /\ stdout' = stdout \o <<[msg |-> main_body[stmt].op, table |-> main_body[stmt].table,
                              n |-> Len(TableFrame(main_body[stmt].table).rows)]>>
    /\ Advance
    /\ UNCHANGED <<call, frames, source, pg_conn, db, parser_accepts>>

\* pg_conn.close(); print(...)
Close ==
    /\ At("close")
    /\ pg_conn' = "closed"
    /\ db' = db \o <<[op |-> "close"]>>
    /\ stdout' = stdout \o <<[msg |-> "Connexion a la base de donnees fermee"]>>
    /\ Advance
    /\ UNCHANGED <<call, frames, source, parser_accepts>>

\* return df
Return ==
    /\ At("return")
    /\ result' = df
    /\ pc' = "returned"
    /\ UNCHANGED <<value, column, frames, source, pg_conn, db, parser_accepts, stmt, error,
                   stdout>>

-----------------------------------------------------------------------------
(* Spec: main() on a directory.  The first .csv file holds at most         *)
(* MaxMainRows rows; the database may refuse every call.                   *)

MaxMainRows == 2

RawHeader ==
    <<"ID", "Project Code", "Country", "Shipment Mode", "PQ First Sent to Client Date",
      "Scheduled Delivery Date", "Delivered to Client Date", "Delivery Recorded Date",
      "Product Group", "Sub Classification", "Vendor", "Item Description",
      "Molecule/Test Type", "Brand", "Dosage", "Dosage Form", "Line Item Quantity",
      "Line Item Value", "Unit Price", "Weight (Kilograms)", "Freight Cost (USD)",
      "Line Item Insurance (USD)">>

\* a row of the file, from its cells in the order of the header
RawRow(cells) ==
    [n \in Range(RawHeader) |-> cells[CHOOSE k \in 1..Len(RawHeader) : RawHeader[k] = n]]

\* the k-th row of the file as read_csv gives it: an empty field is NaN.  The
\* country, the product, the mode and the freight cost follow from k (row 1
\* carries a number as freight cost, the later rows refer to row 1); the row
\* lacks its shipment mode, or its insurance, or nothing, and its weight is a
\* number or a reference to another row (row 1 to row 2, the others to row 1;
\* a row after the second always refers)
MainRow(k, lacks, refers) ==
    RawRow(<<IntV(k), Str("100-CI-T01"), IF k = 1 THEN Str("VN") ELSE Str("ZM"),
             IF lacks = "shipment_mode" THEN NaN
             ELSE IF k % 2 = 1 THEN Str("Air") ELSE Str("Truck"),
             IF k = 1 THEN Str(PrePQProcess) ELSE Str(<<"6", "/", "2", "/", "2", "0", "0", "6">>),
             Str(<<"2", "-", "J", "u", "n", "-", "0", "6">>), Str(<<" ", "0", "6", "/", "0", "2", "/", "0", "6">>), Str(<<"2", "0", "0", "6", "-", "0", "6", "-", "0", "2">>),
             IF k = 1 THEN Str("ARV") ELSE Str("HRDT"), Str("Adult"),
             Str("SCMS"), Str("Lamivudine 150mg"), Str("Lamivudine"), NaN, Str("150mg"),
             IF k = 3 THEN Str("Capsule") ELSE Str("Tablet"),
             IntV(10 * k), FloatV(5 * k), FloatV(k),
             IF ~refers THEN Str(<<"3", "5", "8">>) ELSE IF k = 1 THEN Str(<<":", "2">>) ELSE Str(<<":", "1">>),
             IF k = 1 THEN Str(<<"4", "5", "2", "1", ".", "5">>) ELSE Str(<<":", "1">>),
             IF lacks = "line_item_insurance_usd" THEN NaN ELSE FloatV(16)>>)

MainRowsAt(k) ==
    {MainRow(k, lacks, refers) :
        lacks \in {"nothing", "shipment_mode", "line_item_insurance_usd"},
        refers \in IF k <= 2 THEN BOOLEAN ELSE {TRUE}}

RECURSIVE MainRowSeqs(_)
MainRowSeqs(n) ==
    IF n = 0 THEN {<<>>}
    ELSE {rows \o <<r>> : rows \in MainRowSeqs(n - 1), r \in MainRowsAt(n)}

MainFrames == {Frame(RawHeader, rows) : rows \in UNION {MainRowSeqs(n) : n \in 0..MaxMainRows}}

\* a file without the columns of SELECTED_COLUMNS
ShortFrame == Frame(<<"ID", "Country">>, <<("ID" :> IntV(1)) @@ ("Country" :> Str("VN"))>>)

Csv(content) == [csv |-> TRUE, content |-> content]
Txt == [csv |-> FALSE, content |-> Malformed]

Directories ==
    {[exists |-> FALSE, files |-> <<>>],
     [exists |-> TRUE, files |-> <<>>],
     [exists |-> TRUE, files |-> <<Txt>>],
     [exists |-> TRUE, files |-> <<Csv(Malformed)>>],
     [exists |-> TRUE, files |-> <<Csv(ShortFrame)>>],
     [exists |-> TRUE, files |-> <<Csv(ShortFrame), Csv(Malformed)>>]}
    \cup {[exists |-> TRUE, files |-> <<Txt, Csv(f), Csv(ShortFrame)>>] : f \in MainFrames}

Init ==
    /\ pc = "main"
    /\ stmt = 1
    /\ source \in Directories
    /\ parser_accepts \in BOOLEAN
    /\ dataframes = <<>> /\ df = Idle /\ dataset = Idle
    /\ countries = Idle /\ vendors = Idle /\ transport_modes = Idle /\ products = Idle
    /\ pg_conn = "none" /\ db = <<>>
    /\ stdout = <<>> /\ error = NoError
    /\ value = None /\ column = Idle /\ result = None

Next ==
    \/ LoadCsvFiles
    \/ CleanColumnNames
    \/ ConvertDateColumns
    \/ SelectColumns
    \/ ResolveReferences
    \/ DropNa
    \/ CreateDimensionTables
    \/ SetupPostgresDatabase
    \/ CreateTable
    \/ InsertData
    \/ Display
    \/ Close
    \/ Return
    \/ Except

Spec == Init /\ [][Next]_vars

-----------------------------------------------------------------------------
(* Claims about main().                                                    *)

DimensionTables == {"countries", "vendors", "transport_modes", "products"}

IsTableCall(entry, op, table) == entry.op = op /\ entry.table = table

\* C5: the database sees, per table, create_table and then at once
\* insert_data; the deliveries table only after the four dimension tables were
\* created and filled; nothing before the connection and nothing after close.
C5_LoadOrder ==
    /\ pg_conn = "none" <=> db = <<>>
    /\ pg_conn = "closed" <=> (db # <<>> /\ db[Len(db)].op = "close")
    /\ \A k \in 1..Len(db) :
          /\ db[k].op = "connect" <=> k = 1
          /\ db[k].op = "close" => k = Len(db)
          /\ db[k].op = "insert" =>
                db[k - 1].op = "create_table" /\ db[k - 1].table = db[k].table
          /\ (db[k].op = "create_table" /\ k < Len(db)) =>
                IsTableCall(db[k + 1], "insert", db[k].table)
          /\ (db[k].op \in {"create_table", "insert"} /\ db[k].table = "deliveries") =>
                \A t \in DimensionTables :
                    \E i, j \in 1..(k - 1) :
                        /\ i < j
                        /\ IsTableCall(db[i], "create_table", t)
                        /\ IsTableCall(db[j], "insert", t)

\* a complete run: connect, five tables created and filled, close
C5_Witness ==
    /\ pc = "returned"
    /\ Len(db) = 12
    /\ IsTableCall(db[10], "create_table", "deliveries")
    /\ IsTableCall(db[11], "insert", "deliveries")
    /\ Len(db[11].rows) = 2

Last(seq) == seq[Len(seq)]

\* what holds of a run that has ended, and of one that has not
C6_Ended ==
    /\ pc = "raised" =>
          /\ error # NoError
          /\ stdout # <<>>
          /\ Last(stdout) = [msg |-> "Erreur dans le pipeline", e |-> error]
          /\ result = None
    /\ pc = "returned" =>
          /\ error = NoError
          /\ stmt = Len(main_body)
          /\ Len(db) = 12
    /\ pc = "main" => (error = NoError /\ stmt \in 1..Len(main_body))
    /\ pc = "except" => error # NoError

\* once a statement has raised, no statement runs: the exception goes to the
\* handler and out of main as it is
C6_NoLaterStep ==
    pc \in {"except", "raised"} =>
        /\ pc' \in {"except", "raised"}
        /\ error' = error
        /\ UNCHANGED <<stmt, frames, pg_conn, db, result>>

\* C6: a statement that raises ends the run: no later statement runs, main
\* prints its diagnostic and raises the same exception; a run ends with all
\* statements done or with the exception.
C6_AbortOnFirstFailure == [](C6_Ended) /\ [][C6_NoLaterStep]_vars

\* insert_data of the products table failed: three dimension tables are
\* loaded, the fourth is created, and main has raised the database's error
C6_Witness ==
    /\ pc = "raised"
    /\ error = "DatabaseError"
    /\ IsTableCall(main_body[stmt], "insert_data", "products")
    /\ Len(db) = 8
    /\ pg_conn = "open"

\* the rows of the first .csv file of the directory, as read
SourceRows ==
    LET csv == filter_seq(source.files, {f \in Range(source.files) : f.csv})
    IN  csv[1].content.rows

Present(row) == ~isna(row["Shipment Mode"]) /\ ~isna(row["Line Item Insurance (USD)"])

RECURSIVE present_rows(_)
present_rows(rows) ==
    IF Len(rows) = 0 THEN <<>>
    ELSE IF Present(Head(rows)) THEN <<Head(rows)>> \o present_rows(Tail(rows))
    ELSE present_rows(Tail(rows))

\* the weight of a source row is a reference, at the start of its text, to
\* the id of a source row
RefersTo(row, other) ==
    /\ IsStr(row["Weight (Kilograms)"])
    /\ re_match(row["Weight (Kilograms)"].s)
    /\ other["ID"] = IntV(ReferencedId(row["Weight (Kilograms)"].s))

WeightOf(row) ==
    {row["Weight (Kilograms)"]} \cup
    (IF can_float(row["Weight (Kilograms)"]) THEN {to_float(row["Weight (Kilograms)"])} ELSE {})

\* C7: the fact table main returns holds the source rows that have both a
\* shipment mode and an insurance, and no other row; a row that was dropped
\* gives no dimension entity; the references were resolved before the rows
\* were dropped (a kept row that refers to a dropped row carries its weight).
C7_RowFiltering ==
    pc = "returned" =>
        LET kept == present_rows(SourceRows)
        IN  /\ Len(result.rows) = Len(kept)
            /\ \A k \in 1..Len(kept) :
                  /\ result.rows[k].delivery_id = kept[k]["ID"]
                  /\ \A j \in 1..Len(SourceRows) :
                        RefersTo(kept[k], SourceRows[j]) =>
                            result.rows[k].weight_kilograms \in WeightOf(SourceRows[j])
            /\ \A r \in Range(countries.rows) : \E k \in 1..Len(kept) :
                  kept[k]["Country"] = r.country_name
            /\ \A r \in Range(vendors.rows) : \E k \in 1..Len(kept) :
                  kept[k]["Vendor"] = r.vendor_name
            /\ \A r \in Range(transport_modes.rows) : \E k \in 1..Len(kept) :
                  kept[k]["Shipment Mode"] = r.mode_name
            /\ \A r \in Range(products.rows) : \E k \in 1..Len(kept) :
                  /\ kept[k]["Product Group"] = r.product_group
                  /\ kept[k]["Dosage Form"] = r.dosage_form

\* of two source rows the second lacks its shipment mode and the first refers
\* to it: the fact table holds the first row alone, with the weight of the second
C7_Witness ==
    /\ pc = "returned"
    /\ Len(SourceRows) = 2
    /\ isna(SourceRows[2]["Shipment Mode"])
    /\ RefersTo(SourceRows[1], SourceRows[2])
    /\ Len(result.rows) = 1
    /\ result.rows[1].delivery_id = IntV(1)
    /\ result.rows[1].weight_kilograms = FloatV(3580)
    /\ Len(countries.rows) = 1

====
